---- MODULE Spec2Model ----
(***************************************************************************)
(* A model of src/app.py: the PDF -> DOCX / XLSX conversion service.       *)
(*                                                                         *)
(*   SpecNorm   the per-table normalization loop of convert_pdf_to_excel   *)
(*              (lines 203-257) applied to every bounded extracted table.  *)
(*   SpecExcel  convert_pdf_to_excel as a whole: the four-strategy tabula  *)
(*              ladder, normalization, the workbook writer.                *)
(*   Spec       the request handlers upload_file, upload_file_excel and    *)
(*              download_file with its delayed_cleanup threads, acting on  *)
(*              the uploads/ and converted/ folders.                       *)
(*                                                                         *)
(* Text is modelled as the sequence of its blank-separated words, so that  *)
(* ' '.join and str.strip are computed: "Unnamed: 0" is <<"Unnamed:","0">>,*)
(* the empty string is <<>>.                                               *)
(***************************************************************************)
EXTENDS Integers, Sequences, FiniteSets, TLC

\* ------------------------------------------------------------------ bounds
\* an extracted table has at most MaxCols columns and MaxCells cells
MaxCols == 2
MaxCells == 6

\* a strategy call returns at most MaxTables tables
MaxTables == 2
\* download_file is requested at most MaxFetch times
MaxFetch == 3

VARIABLES
    table,          \* SpecNorm: the extracted DataFrame handed to the loop body
    ndf,            \* SpecNorm: the loop body's local df
    nfirst,         \* SpecNorm: first_row_used_as_header
    npc,            \* SpecNorm: position in the loop body
    tabula,         \* SpecExcel: what each tabula.read_pdf call does on this PDF
    xpc,            \* SpecExcel: position in convert_pdf_to_excel
    invoked,        \* SpecExcel: the strategies called so far, in call order
    dfs,            \* SpecExcel: the local dfs
    processed_dfs,  \* SpecExcel: the local processed_dfs
    xresult,        \* SpecExcel: the (success, message) pair returned
    xfile,          \* SpecExcel: the file at xlsx_path
    uploads,        \* Spec: the requests whose PDF exists in UPLOAD_FOLDER
    converted,      \* Spec: per request, the file at its path in CONVERTED_FOLDER
    rpc,            \* Spec: per request, the position of its upload handler
    rkind,          \* Spec: per request, the route: "docx" or "xlsx"
    rpdf,           \* Spec: per request, the submitted PDF
    rstored,        \* Spec: per request, whether file.save stored the PDF
    rcalls,         \* Spec: per request, the pipeline functions it has called
    resp,           \* Spec: per request, the JSON response returned
    fpc,            \* Spec: per fetch, the position of download_file
    ftarget,        \* Spec: per fetch, the request whose artifact it names
    fresp,          \* Spec: per fetch, the response returned
    cpc,            \* Spec: per fetch, the position of its delayed_cleanup thread
    served,         \* Spec: per request, how often send_file served its artifact
    removeCalls     \* Spec: per request, the os.remove calls made on its artifact

normVars == <<table, ndf, nfirst, npc>>
excelVars == <<tabula, xpc, invoked, dfs, processed_dfs, xresult, xfile>>
lifeVars == <<uploads, converted, rpc, rkind, rpdf, rstored, rcalls, resp,
              fpc, ftarget, fresp, cpc, served, removeCalls>>
vars == <<table, ndf, nfirst, npc,
          tabula, xpc, invoked, dfs, processed_dfs, xresult, xfile,
          uploads, converted, rpc, rkind, rpdf, rstored, rcalls, resp,
          fpc, ftarget, fresp, cpc, served, removeCalls>>

\* ------------------------------------------------------------------- text
EmptyStr == <<>>

\* float('nan') / None as a cell or label; str() of it is 'nan'
NaN == <<"nan">>

isna(v) == v = NaN

\* str.startswith('Unnamed')
StartsWithUnnamed(s) == Len(s) > 0 /\ s[1] \in {"Unnamed:", "Unnamed"}

\* str.lower() == 'none'
LowerIsNone(s) == s \in {<<"none">>, <<"None">>, <<"NONE">>}

\* str.isdigit(): one word, all of whose characters are digits
isdigit(s) == Len(s) = 1 /\ s[1] \in {"0", "1", "7", "42"}

\* f"Column_{j+1}" with j the 0-based position (n = j + 1)
ColumnLabel(n) == <<"Column_" \o ToString(n)>>

\* ----------------------------------------------------------- DataFrames
\* A DataFrame: columns is the column index, one tuple of parts per column
\* (one part for a flat index, two for a two-level one); rows the cell values, row-major.
SeqsOfLen(S, n) == [1..n -> S]

\* Cell values: a missing value, a word, a number, and a text that begins
\* with "Unnamed"
Cells == {NaN, <<"A">>, <<"7">>, <<"Unnamed", "Creek">>}

\* Column labels as pandas reads them: a flat index (one part per label) or
\* the two-level index of pandas_options={'header': [0, 1]}; a missing header
\* cell is named "Unnamed: <n>", so the labels of one table differ.
FlatLabels == { << <<"Unnamed:", "0">> >>, << <<"Unnamed:", "1">> >>,
                << <<"A">> >>, << <<"Column_2">> >> }

MultiLabels == { << <<"Unnamed:", "0_level_0">>, <<"A">> >>,
                 << <<"A">>, EmptyStr >>,
                 << EmptyStr, EmptyStr >> }

Injective(s) == \A i, j \in DOMAIN s : i # j => s[i] # s[j]

TablesOf(labels) ==
    UNION { UNION { [columns : {s \in SeqsOfLen(labels, c) : Injective(s)},
                     rows : SeqsOfLen(SeqsOfLen(Cells, c), r)]
                    : r \in 0..(MaxCells \div c) } : c \in 1..MaxCols }

Tables == TablesOf(FlatLabels) \cup TablesOf(MultiLabels)

\* df.columns.nlevels
nlevels(df) == IF Len(df.columns) = 0 THEN 1 ELSE Len(df.columns[1])

\* df.empty: some axis has length 0
empty(df) == Len(df.rows) = 0 \/ Len(df.columns) = 0

\* ' '.join([str(c) for c in col if not pd.isna(c) and str(c).strip() != ''])
RECURSIVE JoinParts(_)
JoinParts(col) ==
    IF col = <<>> THEN EmptyStr
    ELSE IF isna(Head(col)) \/ Head(col) = EmptyStr
         THEN JoinParts(Tail(col))
         ELSE Head(col) \o JoinParts(Tail(col))

\* lines 206-212: flatten a multi-level column index
FlattenColumns(df) ==
    IF nlevels(df) > 1
    THEN [df EXCEPT !.columns = [j \in 1..Len(df.columns) |-> <<JoinParts(df.columns[j])>>]]
    ELSE df

\* lines 222-226: the label does not look like an actual header
IsUnnamed(col_str) ==
    \/ StartsWithUnnamed(col_str)
    \/ isna(col_str)
    \/ col_str = EmptyStr
    \/ col_str = <<"nan">>
    \/ LowerIsNone(col_str)

\* lines 231-235: the first-row value can serve as a header
IsPotentialHeader(potential_header) ==
    /\ potential_header # EmptyStr
    /\ potential_header # <<"nan">>
    /\ ~LowerIsNone(potential_header)
    /\ Len(potential_header) > 0
    /\ ~isdigit(potential_header)

\* lines 218-243: the new label of column j (1-based) of a non-empty df
NewColumn(df, j) ==
    LET col_str == df.columns[j][1]
    IN  IF IsUnnamed(col_str)
        THEN IF Len(df.rows) > 0 /\ j <= Len(df.columns)
             THEN IF IsPotentialHeader(df.rows[1][j])
                  THEN df.rows[1][j]
                  ELSE ColumnLabel(j)
             ELSE ColumnLabel(j)
        ELSE col_str

\* line 237: some column took its label from the first row
FirstRowUsedAsHeader(df) ==
    \E j \in 1..Len(df.columns) :
        /\ IsUnnamed(df.columns[j][1])
        /\ Len(df.rows) > 0
        /\ IsPotentialHeader(df.rows[1][j])

\* lines 214-245: df.columns = new_columns
Relabel(df) ==
    [df EXCEPT !.columns = [j \in 1..Len(df.columns) |-> <<NewColumn(df, j)>>]]

\* Mutant of DropFirstRow: the promoted first row stays in the data
DropFirstRow_Kept(df, used) == df

\* lines 248-249: df.iloc[1:].reset_index(drop=True)
DropFirstRow(df, used) ==
    IF used /\ Len(df.rows) > 0 THEN [df EXCEPT !.rows = Tail(df.rows)] ELSE df

\* Subsequence of s at the positions satisfying keep, order preserved
RECURSIVE SelectIdx(_, _, _)
SelectIdx(s, keep, i) ==
    IF i > Len(s) THEN <<>>
    ELSE IF keep[i] THEN <<s[i]>> \o SelectIdx(s, keep, i + 1)
         ELSE SelectIdx(s, keep, i + 1)

\* Mutant of DropEmptyRows: the row pass is left out
DropEmptyRows_Skipped(df) == df

\* line 252: df.dropna(axis=0, how='all')
DropEmptyRows(df) ==
    LET keep == [i \in 1..Len(df.rows) |->
                    \E j \in 1..Len(df.columns) : ~isna(df.rows[i][j])]
    IN  [df EXCEPT !.rows = SelectIdx(df.rows, keep, 1)]

\* line 253: df.dropna(axis=1, how='all')
DropEmptyCols(df) ==
    LET keep == [j \in 1..Len(df.columns) |->
                    \E i \in 1..Len(df.rows) : ~isna(df.rows[i][j])]
    IN  [columns |-> SelectIdx(df.columns, keep, 1),
         rows |-> [i \in 1..Len(df.rows) |-> SelectIdx(df.rows[i], keep, 1)]]

\* lines 251-253
Prune(df) == DropEmptyCols(DropEmptyRows(df))

\* line 256: only keep dataframes that have actual data
HasData(df) == Len(df.rows) > 0 /\ Len(df.columns) > 0

\* lines 205-253 for one non-empty df
NormalizeTable(df) ==
    LET flat == FlattenColumns(df)
    IN  Prune(DropFirstRow(Relabel(flat), FirstRowUsedAsHeader(flat)))

\* ------------------------------------------- convert_pdf_to_excel
\* What one tabula.read_pdf call does: it raises, or returns its tables.
RaisesError == [raises |-> TRUE, tables |-> <<>>]

Returns(tables) == [raises |-> FALSE, tables |-> tables]

\* An extracted table without rows (df.empty)
EmptyTable == [columns |-> << << <<"A">> >> >>, rows |-> <<>>]

\* A headerless table: the label is synthetic, the first row holds the header
DataTable == [columns |-> << << <<"Unnamed:", "0">> >> >>,
              rows |-> << << <<"A">> >>, << <<"7">> >> >>]

\* A table with a row but no value in it
BlankTable == [columns |-> << << <<"A">> >> >>, rows |-> << <<NaN>> >>]

SeqsUpTo(S, n) == UNION { SeqsOfLen(S, k) : k \in 0..n }

StrategyResults ==
    {RaisesError, Returns(<<BlankTable>>)}
        \cup { Returns(t) : t \in SeqsUpTo({EmptyTable, DataTable}, MaxTables) }

\* lines 159, 171, 184: not dfs or len(dfs) == 0 or any(df.empty for df in dfs)
LadderRetry(d) == d = <<>> \/ Len(d) = 0 \/ \E i \in 1..Len(d) : empty(d[i])

\* Mutant of Ladder: a raise leaves dfs as the earlier strategies set it
RECURSIVE Ladder_KeepsTables(_, _, _)
Ladder_KeepsTables(results, k, st) ==
    IF k > 4 THEN st
    ELSE IF k = 1 \/ LadderRetry(st.dfs)
         THEN IF results[k].raises
              THEN [dfs |-> st.dfs, invoked |-> Append(st.invoked, k)]
              ELSE Ladder_KeepsTables(results, k + 1,
                          [dfs |-> results[k].tables,
                           invoked |-> Append(st.invoked, k)])
         ELSE Ladder_KeepsTables(results, k + 1, st)

\* lines 143-198 from strategy k on; st holds dfs and the strategies called
RECURSIVE Ladder(_, _, _)
Ladder(results, k, st) ==
    IF k > 4 THEN st
    ELSE IF k = 1 \/ LadderRetry(st.dfs)
         THEN IF results[k].raises
              THEN [dfs |-> <<>>, invoked |-> Append(st.invoked, k)]
              ELSE Ladder(results, k + 1,
                          [dfs |-> results[k].tables,
                           invoked |-> Append(st.invoked, k)])
         ELSE Ladder(results, k + 1, st)

\* lines 143-198: the extraction ladder
Extract(results) == Ladder(results, 1, [dfs |-> <<>>, invoked |-> <<>>])

\* lines 201-260: the normalization loop over dfs
RECURSIVE ProcessTables(_)
ProcessTables(d) ==
    IF d = <<>> THEN <<>>
    ELSE LET df == Head(d)
         IN  IF ~empty(df) /\ HasData(NormalizeTable(df))
             THEN <<NormalizeTable(df)>> \o ProcessTables(Tail(d))
             ELSE ProcessTables(Tail(d))

\* Mutant of NoDataFound: the check is left out
NoDataFound_Never(d) == FALSE

\* line 263: not dfs or len(dfs) == 0
NoDataFound(d) == d = <<>> \/ Len(d) = 0

\* lines 268-281: the sheets written for the tables rest, the last ones of
\* the list d (table i of d, 1-based, is named Table_<i>)
RECURSIVE SheetsFrom(_, _)
SheetsFrom(d, rest) ==
    IF rest = <<>> THEN <<>>
    ELSE LET i == Len(d) - Len(rest) + 1
             df == Prune(Head(rest))
             sheet_name == IF Len(d) > 1 THEN "Table_" \o ToString(i) ELSE "Data"
         IN  IF ~empty(Head(rest)) /\ ~empty(df)
             THEN <<[name |-> sheet_name, columns |-> df.columns, rows |-> df.rows]>>
                      \o SheetsFrom(d, Tail(rest))
             ELSE SheetsFrom(d, Tail(rest))

\* lines 372-375: the sheet written when no table was
NoticeSheet == [name |-> "Notice", columns |-> << <<<<"Message">>>> >>,
                rows |-> << << <<"No", "tabular", "data", "found", "in", "the", "PDF", "file.">> >> >>]

\* lines 267-375: the workbook the ExcelWriter block saves
Workbook(d) == IF SheetsFrom(d, d) = <<>> THEN <<NoticeSheet>> ELSE SheetsFrom(d, d)

\* The file at an output path: absent, a file of size 0, a file that is no
\* zip container (a partial write), or a saved container with its content.
NoFile == [state |-> "absent", sheets |-> <<>>, entries |-> {}]
ZeroByteFile == [state |-> "empty", sheets |-> <<>>, entries |-> {}]
PartialFile == [state |-> "partial", sheets |-> <<>>, entries |-> {}]
WorkbookFile(sheets) == [state |-> "workbook", sheets |-> sheets, entries |-> {}]
DocxFile(entries) == [state |-> "docx", sheets |-> <<>>, entries |-> entries]

\* os.path.exists
exists(file) == file.state # "absent"

\* os.path.getsize
getsize(file) == IF file.state \in {"absent", "empty"} THEN 0 ELSE 1

\* ZipFile(path, 'r') opens without BadZipFile
IsZip(file) == file.state \in {"workbook", "docx"}

Result(ok, msg) == [ok |-> ok, msg |-> msg]

\* What the ExcelWriter block can do: save the workbook, or raise (an I/O
\* error) with no file or a partial file left at xlsx_path.
WriteFaults == {"none", "raise_nofile", "raise_partial"}

\* lines 266-385 and the handler of lines 393-407: write, check, return
WriteWorkbook(d, fault) ==
    IF fault = "raise_nofile"
    THEN [result |-> Result(FALSE, "PDF to Excel conversion failed"), file |-> NoFile]
    ELSE IF fault = "raise_partial"
    THEN [result |-> Result(FALSE, "PDF to Excel conversion failed"), file |-> PartialFile]
    ELSE [result |-> Result(TRUE, "PDF to Excel conversion completed successfully"),
          file |-> WorkbookFile(Workbook(d))]

\* lines 130-407: convert_pdf_to_excel on a source file in state src
convert_pdf_to_excel(src, results, fault) ==
    IF src = "absent"
    THEN [result |-> Result(FALSE, "Input PDF file not found"), file |-> NoFile]
    ELSE IF src = "empty"
    THEN [result |-> Result(FALSE, "PDF file is empty"), file |-> NoFile]
    ELSE LET d == ProcessTables(Extract(results).dfs)
         IN  IF NoDataFound(d)
             THEN [result |-> Result(FALSE, "No tables or data found in the PDF"),
                   file |-> NoFile]
             ELSE WriteWorkbook(d, fault)

\* ------------------------------------------------------ validate_pdf
Integrities == {"valid", "unreadable", "zero_pages", "bad_first_page"}

\* Mutant of validate_pdf: every file passes
validate_pdf_Lenient(integrity) == Result(TRUE, "Valid PDF file")

\* lines 39-55
validate_pdf(integrity) ==
    IF integrity = "unreadable"
    THEN Result(FALSE, "Invalid or corrupted PDF file")
    ELSE IF integrity = "zero_pages"
    THEN Result(FALSE, "PDF file appears to be empty")
    ELSE IF integrity = "bad_first_page"
    THEN Result(FALSE, "Invalid or corrupted PDF file")
    ELSE Result(TRUE, "Valid PDF file")

\* ------------------------------------------------- convert_pdf_to_docx
RequiredFiles == {"[Content_Types].xml", "word/document.xml"}

\* What pdf2docx can do at lines 70-80: write a complete container, one
\* lacking word/document.xml, a file that is no zip, a file of size 0 or no
\* file, or raise with no file or a partial file at docx_path.
TransformerOutcomes ==
    {"ok", "missing_entry", "badzip", "emptyfile", "nofile",
     "raise_nofile", "raise_partial"}

TransformerFile(outcome) ==
    CASE outcome = "ok" -> DocxFile(RequiredFiles)
      [] outcome = "missing_entry" -> DocxFile({"[Content_Types].xml"})
      [] outcome = "badzip" -> PartialFile
      [] outcome = "emptyfile" -> ZeroByteFile
      [] outcome = "raise_partial" -> PartialFile
      [] OTHER -> NoFile

\* lines 57-128: convert_pdf_to_docx on a source file in state src
convert_pdf_to_docx(src, outcome) ==
    LET file == TransformerFile(outcome)
    IN  IF src = "absent"
        THEN [result |-> Result(FALSE, "Input PDF file not found"), file |-> NoFile]
        ELSE IF src = "empty"
        THEN [result |-> Result(FALSE, "PDF file is empty"), file |-> NoFile]
        ELSE IF outcome \in {"raise_nofile", "raise_partial"}
        THEN [result |-> Result(FALSE, "Conversion failed"), file |-> file]
        ELSE IF ~exists(file)
        THEN [result |-> Result(FALSE, "DOCX file was not created"), file |-> file]
        ELSE IF getsize(file) = 0
        THEN [result |-> Result(FALSE, "Generated DOCX file is empty"), file |-> file]
        ELSE IF ~IsZip(file)
        THEN [result |-> Result(FALSE, "Generated file is not a valid DOCX format"),
              file |-> file]
        ELSE [result |-> Result(TRUE, "Conversion completed successfully"),
              file |-> file]

\* ------------------------------------------------------ the routes
\* The endpoints the module registers (lines 409-557), and Flask's static
Endpoints == {"home", "pdf_tools", "upload_file", "upload_file_excel",
              "download_file", "static"}

\* flask.url_for: an unknown endpoint raises werkzeug's BuildError
url_for(endpoint) == IF endpoint \in Endpoints THEN "url" ELSE "BuildError"

\* One request: its two paths carry its own uuid4 (lines 438-441, 455-456),
\* so the handlers of other requests touch none of its files.
Requests == {"r1"}
Fetches == 1..MaxFetch
Kinds == {"docx", "xlsx"}

\* The tabula behaviours of the PDFs submitted for spreadsheet conversion
NoTables == [k \in 1..4 |-> Returns(<<>>)]

SampleLadders ==
    { NoTables,
      [NoTables EXCEPT ![1] = Returns(<<DataTable>>)],
      [NoTables EXCEPT ![1] = Returns(<<DataTable, EmptyTable>>)],
      [NoTables EXCEPT ![1] = Returns(<<EmptyTable>>), ![3] = Returns(<<DataTable, DataTable>>)],
      [NoTables EXCEPT ![1] = Returns(<<BlankTable>>)],
      [NoTables EXCEPT ![1] = RaisesError] }

\* convert_pdf_to_excel on each of these PDFs, for each behaviour of the writer
ExcelConversions ==
    [l \in SampleLadders, fault \in WriteFaults |->
        convert_pdf_to_excel("present", l, fault)]

\* A submitted PDF: how PyPDF2 reads it and what tabula finds in it
PDFs(kind) ==
    IF kind = "xlsx"
    THEN [integrity : {"valid"}, tabula : SampleLadders]
             \cup [integrity : Integrities \ {"valid"}, tabula : {NoTables}]
    ELSE [integrity : Integrities, tabula : {NoTables}]

NoPdf == [integrity |-> "none", tabula |-> NoTables]

Response(success, error, download) ==
    [success |-> success, error |-> error, download |-> download]

NoResponse == Response(FALSE, "", "none")

NoFetchResponse == [outcome |-> "none", mime |-> ""]

\* What the request carries: the checks of lines 424-435 and Flask's
\* MAX_CONTENT_LENGTH reject everything but "pdf"
Uploads == {"pdf", "no_file", "no_filename", "not_pdf", "too_large"}

\* lines 424-435, 475-476: the rejection of a request, "" when it passes
Rejection(upload) ==
    CASE upload = "no_file" -> "No file selected"
      [] upload = "no_filename" -> "No file selected"
      [] upload = "not_pdf" -> "Only PDF files are allowed"
      [] upload = "too_large" -> "File too large. Maximum size is 50MB."
      [] OTHER -> ""

\* What file.save can do at line 444: store the file, or raise with the
\* file partly written or not created
SaveOutcomes == {"saved", "raise_partial", "raise_nofile"}

\* Mutant of CleanupOnError: the handler of an unexpected error leaves the file
CleanupOnError_Skipped(up, r) == up

\* lines 480-485: if os.path.exists(pdf_path): os.remove(pdf_path)
CleanupOnError(up, r) == IF r \in up THEN up \ {r} ELSE up

LifeIdle ==
    /\ uploads = {}
    /\ converted = [r \in Requests |-> NoFile]
    /\ rpc = [r \in Requests |-> "idle"]
    /\ rkind = [r \in Requests |-> "docx"]
    /\ rpdf = [r \in Requests |-> NoPdf]
    /\ rstored = [r \in Requests |-> FALSE]
    /\ rcalls = [r \in Requests |-> {}]
    /\ resp = [r \in Requests |-> NoResponse]
    /\ fpc = [f \in Fetches |-> "idle"]
    /\ ftarget = [f \in Fetches |-> "r1"]
    /\ fresp = [f \in Fetches |-> NoFetchResponse]
    /\ cpc = [f \in Fetches |-> "none"]
    /\ served = [r \in Requests |-> 0]
    /\ removeCalls = [r \in Requests |-> 0]

fetchVars == <<fpc, ftarget, fresp, cpc, served, removeCalls>>

\* lines 422-445 (upload_file) and 491-514 (upload_file_excel): check the
\* request and save the file
Submit(r) ==
    /\ rpc[r] = "idle"
    /\ \E kind \in Kinds, upload \in Uploads, save \in SaveOutcomes :
        /\ rkind' = [rkind EXCEPT ![r] = kind]
        /\ IF Rejection(upload) # ""
           THEN /\ resp' = [resp EXCEPT ![r] = Response(FALSE, Rejection(upload), "none")]
                /\ rpc' = [rpc EXCEPT ![r] = "responded"]
                /\ UNCHANGED <<uploads, rpdf, rstored>>
           ELSE \E pdf \in PDFs(kind) :
                /\ rpdf' = [rpdf EXCEPT ![r] = pdf]
                /\ uploads' = IF save = "raise_nofile" THEN uploads ELSE uploads \cup {r}
                /\ rstored' = [rstored EXCEPT ![r] = save # "raise_nofile"]
                /\ rpc' = [rpc EXCEPT ![r] = IF save = "saved" THEN "saved" ELSE "except"]
                /\ UNCHANGED resp
    /\ UNCHANGED <<converted, rcalls>>
    /\ UNCHANGED <<fetchVars, normVars, excelVars>>

\* lines 447-452 and 516-521: the integrity gate
Validate(r) ==
    /\ rpc[r] = "saved"
    /\ rcalls' = [rcalls EXCEPT ![r] = @ \cup {"validate_pdf"}]
    /\ LET v == validate_pdf(rpdf[r].integrity)
       IN  IF ~v.ok
           THEN /\ uploads' = uploads \ {r}
                /\ resp' = [resp EXCEPT ![r] = Response(FALSE, v.msg, "none")]
                /\ rpc' = [rpc EXCEPT ![r] = "responded"]
           ELSE /\ rpc' = [rpc EXCEPT ![r] = "validated"]
                /\ UNCHANGED <<uploads, resp>>
    /\ UNCHANGED <<converted, rkind, rpdf, rstored>>
    /\ UNCHANGED <<fetchVars, normVars, excelVars>>

\* lines 454-473 (upload_file): convert, remove the PDF, respond
ConvertDocx(r) ==
    /\ rpc[r] = "validated"
    /\ rkind[r] = "docx"
    /\ rcalls' = [rcalls EXCEPT ![r] = @ \cup {"convert_pdf_to_docx"}]
    /\ \E outcome \in TransformerOutcomes :
        LET c == convert_pdf_to_docx("present", outcome)
        IN  /\ converted' = [converted EXCEPT ![r] = c.file]
            /\ uploads' = uploads \ {r}
            /\ resp' = [resp EXCEPT ![r] =
                   IF ~c.result.ok
                   THEN Response(FALSE, c.result.msg, "none")
                   ELSE Response(TRUE, "", url_for("download_file"))]
    /\ rpc' = [rpc EXCEPT ![r] = "responded"]
    /\ UNCHANGED <<rkind, rpdf, rstored>>
    /\ UNCHANGED <<fetchVars, normVars, excelVars>>

\* lines 523-542 (upload_file_excel): convert, remove the PDF, respond
ConvertExcel(r) ==
    /\ rpc[r] = "validated"
    /\ rkind[r] = "xlsx"
    /\ rcalls' = [rcalls EXCEPT ![r] = @ \cup {"convert_pdf_to_excel"}]
    /\ \E fault \in WriteFaults :
        LET c == ExcelConversions[rpdf[r].tabula, fault]
        IN  /\ converted' = [converted EXCEPT ![r] = c.file]
            /\ uploads' = uploads \ {r}
            /\ resp' = [resp EXCEPT ![r] =
                   IF ~c.result.ok
                   THEN Response(FALSE, c.result.msg, "none")
                   ELSE Response(TRUE, "", url_for("download_file"))]
    /\ rpc' = [rpc EXCEPT ![r] = "responded"]
    /\ UNCHANGED <<rkind, rpdf, rstored>>
    /\ UNCHANGED <<fetchVars, normVars, excelVars>>

\* lines 477-486 and 546-555: the handler of an unexpected error
UploadError(r) ==
    /\ rpc[r] = "except"
    /\ uploads' = CleanupOnError(uploads, r)
    /\ resp' = [resp EXCEPT ![r] = Response(FALSE, "An error occurred", "none")]
    /\ rpc' = [rpc EXCEPT ![r] = "responded"]
    /\ UNCHANGED <<converted, rkind, rpdf, rstored, rcalls>>
    /\ UNCHANGED <<fetchVars, normVars, excelVars>>

\* ------------------------------------ SpecExcel: one conversion, by stage
NoResult == Result(FALSE, "")

ExcelIdle ==
    /\ tabula = <<>>
    /\ xpc = "idle"
    /\ invoked = <<>>
    /\ dfs = <<>>
    /\ processed_dfs = <<>>
    /\ xresult = NoResult
    /\ xfile = NoFile

\* ------------------------------------------------ SpecNorm: the loop body
NoTable == [columns |-> <<>>, rows |-> <<>>]

NormIdle ==
    /\ table = NoTable
    /\ ndf = NoTable
    /\ nfirst = FALSE
    /\ npc = "idle"

InitNorm ==
    /\ table \in Tables
    /\ ndf = table
    /\ nfirst = FALSE
    /\ npc = "start"
    /\ ExcelIdle
    /\ LifeIdle

\* line 204 false: an empty DataFrame is skipped
NormSkip ==
    /\ npc = "start"
    /\ empty(ndf)
    /\ npc' = "skipped"
    /\ UNCHANGED <<table, ndf, nfirst>>
    /\ UNCHANGED <<excelVars, lifeVars>>

\* lines 205-249: flatten, relabel, drop the promoted first row
NormRelabel ==
    /\ npc = "start"
    /\ ~empty(ndf)
    /\ LET flat == FlattenColumns(ndf)
           used == FirstRowUsedAsHeader(flat)
       IN  /\ nfirst' = used
           /\ ndf' = DropFirstRow(Relabel(flat), used)
    /\ npc' = "relabelled"
    /\ UNCHANGED table
    /\ UNCHANGED <<excelVars, lifeVars>>

\* lines 251-257: prune, then keep the table only if it has data
NormPrune ==
    /\ npc = "relabelled"
    /\ ndf' = Prune(ndf)
    /\ npc' = IF HasData(Prune(ndf)) THEN "kept" ELSE "discarded"
    /\ UNCHANGED <<table, nfirst>>
    /\ UNCHANGED <<excelVars, lifeVars>>

NextNorm == NormSkip \/ NormRelabel \/ NormPrune

SpecNorm == InitNorm /\ [][NextNorm]_vars

InitExcel ==
    /\ tabula \in [1..4 -> StrategyResults]
    /\ xpc = "extract"
    /\ invoked = <<>>
    /\ dfs = <<>>
    /\ processed_dfs = <<>>
    /\ xresult = NoResult
    /\ xfile = NoFile
    /\ NormIdle
    /\ LifeIdle

\* lines 143-198: run the ladder
XExtract ==
    /\ xpc = "extract"
    /\ dfs' = Extract(tabula).dfs
    /\ invoked' = Extract(tabula).invoked
    /\ xpc' = "normalize"
    /\ UNCHANGED <<tabula, processed_dfs, xresult, xfile>>
    /\ UNCHANGED <<normVars, lifeVars>>

\* lines 200-264: normalize; return the failure when nothing is left
XNormalize ==
    /\ xpc = "normalize"
    /\ processed_dfs' = ProcessTables(dfs)
    /\ IF NoDataFound(ProcessTables(dfs))
       THEN /\ xresult' = Result(FALSE, "No tables or data found in the PDF")
            /\ xpc' = "returned"
       ELSE /\ xresult' = xresult
            /\ xpc' = "write"
    /\ UNCHANGED <<tabula, invoked, dfs, xfile>>
    /\ UNCHANGED <<normVars, lifeVars>>

\* lines 266-385: write the workbook and return
XWrite ==
    /\ xpc = "write"
    /\ \E fault \in WriteFaults :
           /\ xresult' = WriteWorkbook(processed_dfs, fault).result
           /\ xfile' = WriteWorkbook(processed_dfs, fault).file
    /\ xpc' = "returned"
    /\ UNCHANGED <<tabula, invoked, dfs, processed_dfs>>
    /\ UNCHANGED <<normVars, lifeVars>>

NextExcel == XExtract \/ XNormalize \/ XWrite

SpecExcel == InitExcel /\ [][NextExcel]_vars

\* ------------------------------------------ Spec: uploads and downloads
Init == LifeIdle /\ NormIdle /\ ExcelIdle

uploadVars == <<uploads, rpc, rkind, rpdf, rstored, rcalls, resp>>

\* line 588: the mimetype send_file is given
DocxMime == "application/vnd.openxmlformats-officedocument.wordprocessingml.document"

\* lines 563-565, 591-594: flash, then redirect(url_for('index')); a
\* BuildError there is caught at line 591, whose handler calls url_for('index')
\* again, and that BuildError leaves the view: Flask answers 500
RedirectToIndex ==
    IF url_for("index") = "BuildError"
    THEN [outcome |-> "fault", mime |-> ""]
    ELSE [outcome |-> "redirect", mime |-> ""]

\* lines 584-589: send_file on an existing file
SendFile == [outcome |-> "served", mime |-> DocxMime]

\* lines 560-582: download_file up to the start of the cleanup thread
FetchStart(f) ==
    /\ fpc[f] = "idle"
    /\ \E a \in Requests :
        /\ ftarget' = [ftarget EXCEPT ![f] = a]
        /\ IF ~exists(converted[a])
           THEN /\ fresp' = [fresp EXCEPT ![f] = RedirectToIndex]
                /\ fpc' = [fpc EXCEPT ![f] = "done"]
                /\ UNCHANGED cpc
           ELSE /\ cpc' = [cpc EXCEPT ![f] = "sleeping"]
                /\ fpc' = [fpc EXCEPT ![f] = "sending"]
                /\ UNCHANGED fresp
    /\ UNCHANGED <<converted, served, removeCalls>>
    /\ UNCHANGED <<uploadVars, normVars, excelVars>>

\* lines 584-594: send_file opens the file; an error is handled as above
FetchSend(f) ==
    /\ fpc[f] = "sending"
    /\ IF exists(converted[ftarget[f]])
       THEN /\ fresp' = [fresp EXCEPT ![f] = SendFile]
            /\ served' = [served EXCEPT ![ftarget[f]] = @ + 1]
       ELSE /\ fresp' = [fresp EXCEPT ![f] = RedirectToIndex]
            /\ UNCHANGED served
    /\ fpc' = [fpc EXCEPT ![f] = "done"]
    /\ UNCHANGED <<converted, ftarget, cpc, removeCalls>>
    /\ UNCHANGED <<uploadVars, normVars, excelVars>>

\* lines 571-573: delayed_cleanup wakes and tests os.path.exists
CleanupCheck(f) ==
    /\ cpc[f] = "sleeping"
    /\ cpc' = [cpc EXCEPT ![f] =
           IF exists(converted[ftarget[f]]) THEN "removing" ELSE "done"]
    /\ UNCHANGED <<converted, fpc, ftarget, fresp, served, removeCalls>>
    /\ UNCHANGED <<uploadVars, normVars, excelVars>>

\* lines 574-577: os.remove; its error on a missing file is logged
CleanupRemove(f) ==
    /\ cpc[f] = "removing"
    /\ removeCalls' = [removeCalls EXCEPT ![ftarget[f]] = @ + 1]
    /\ converted' = [converted EXCEPT ![ftarget[f]] = NoFile]
    /\ cpc' = [cpc EXCEPT ![f] = "done"]
    /\ UNCHANGED <<fpc, ftarget, fresp, served>>
    /\ UNCHANGED <<uploadVars, normVars, excelVars>>

Next ==
    \/ \E r \in Requests :
          Submit(r) \/ Validate(r) \/ ConvertDocx(r) \/ ConvertExcel(r) \/ UploadError(r)
    \/ \E f \in Fetches :
          FetchStart(f) \/ FetchSend(f) \/ CleanupCheck(f) \/ CleanupRemove(f)

Spec == Init /\ [][Next]_vars

\* The server runs every handler and every started thread to its end; when
\* a client submits or fetches is up to the client.
Fairness ==
    /\ \A r \in Requests :
          WF_vars(Validate(r) \/ ConvertDocx(r) \/ ConvertExcel(r) \/ UploadError(r))
    /\ \A f \in Fetches :
          WF_vars(FetchSend(f) \/ CleanupCheck(f) \/ CleanupRemove(f))

FairSpec == Spec /\ Fairness

\* ===================================================================
\* Claims on convert_pdf_to_excel (SpecExcel)
\* ===================================================================
HasNonEmptyTable(res) ==
    ~res.raises /\ \E i \in 1..Len(res.tables) : ~empty(res.tables[i])

\* C2: the strategies are tried in the order 1, 2, 3, 4, and once a
\* strategy k returns a result with at least one non-empty table no later
\* strategy is invoked and the result of k is what normalization gets.
C2_FirstSuccessWins ==
    xpc \in {"normalize", "write", "returned"} =>
        /\ invoked = [i \in 1..Len(invoked) |-> i]
        /\ \A k \in 1..Len(invoked) :
               HasNonEmptyTable(tabula[k]) =>
                   /\ Len(invoked) = k
                   /\ dfs = tabula[k].tables

\* ===================================================================
\* Claims on the request handlers (Spec, FairSpec)
\* ===================================================================
Responded(r) == rpc[r] = "responded"

ConvertCalls == {"convert_pdf_to_docx", "convert_pdf_to_excel"}

\* C1: when a submit request that stored its source file has returned its
\* response, the source file is no longer in the upload folder.
C1_SourceRemoved ==
    \A r \in Requests : (Responded(r) /\ rstored[r]) => r \notin uploads

\* C1 witness: a response after file.save raised with the file partly written
C1_Witness ==
    \E r \in Requests :
        /\ Responded(r)
        /\ rstored[r]
        /\ rcalls[r] = {}
        /\ resp[r].error = "An error occurred"

\* C3: send_file serves the bytes of an artifact at most once.
C3_AtMostOneFetch == \A r \in Requests : served[r] <= 1

\* C4: every output file of a successful conversion is deleted exactly
\* once: at most one os.remove is performed on it, and it is eventually gone
\* from the converted folder.
C4_DeletedExactlyOnce ==
    \A r \in Requests :
        /\ [](removeCalls[r] <= 1)
        /\ (Responded(r) /\ resp[r].success) ~> ~exists(converted[r])

\* The reason validate_pdf gives for a file that fails the check
IntegrityReason(integrity) ==
    IF integrity = "zero_pages" THEN "PDF file appears to be empty"
    ELSE "Invalid or corrupted PDF file"

\* C5: when validate_pdf fails, the request returns a Failure carrying the
\* integrity reason, no conversion function is called, and there is no
\* artifact file of the request.
C5_IntegrityFailure ==
    \A r \in Requests :
        (Responded(r) /\ "validate_pdf" \in rcalls[r] /\ rpdf[r].integrity # "valid") =>
            /\ ~resp[r].success
            /\ resp[r].error = IntegrityReason(rpdf[r].integrity)
            /\ rcalls[r] \cap ConvertCalls = {}
            /\ ~exists(converted[r])

\* C5 witness: a spreadsheet request rejected by the integrity check
C5_Witness ==
    \E r \in Requests :
        /\ Responded(r)
        /\ rkind[r] = "xlsx"
        /\ "validate_pdf" \in rcalls[r]
        /\ rpdf[r].integrity = "zero_pages"

\* A spreadsheet request on a valid PDF of which no table survives
\* extraction and normalization
NoTableSurvives(r) ==
    /\ Responded(r)
    /\ rkind[r] = "xlsx"
    /\ "convert_pdf_to_excel" \in rcalls[r]
    /\ ProcessTables(Extract(rpdf[r].tabula).dfs) = <<>>

C7_FailureLeavesNoOutput ==
    \A r \in Requests :
        (Responded(r) /\ rcalls[r] \cap ConvertCalls # {} /\ ~resp[r].success) =>
            ~exists(converted[r])

\* ===================================================================
\* Claims on the normalization loop (SpecNorm)
\* ===================================================================
Finished == npc \in {"kept", "discarded"}

IsEmptyRow(row) == \A j \in DOMAIN row : isna(row[j])

\* C8: every table the normalization loop keeps is rectangular, has at
\* least one row and one column, and has no row and no column whose cells
\* are all the null marker.
C8_KeptTableWellFormed ==
    npc = "kept" =>
        /\ Len(ndf.rows) >= 1
        /\ Len(ndf.columns) >= 1
        /\ \A i \in 1..Len(ndf.rows) : Len(ndf.rows[i]) = Len(ndf.columns)
        /\ \A i \in 1..Len(ndf.rows) : ~IsEmptyRow(ndf.rows[i])
        /\ \A j \in 1..Len(ndf.columns) :
               \E i \in 1..Len(ndf.rows) : ~isna(ndf.rows[i][j])

\* C8 witness: a kept table that lost an empty row and then an empty column
C8_Witness ==
    /\ npc = "kept"
    /\ Len(ndf.columns) < Len(table.columns)
    /\ Len(ndf.rows) + (IF nfirst THEN 1 ELSE 0) < Len(table.rows)

\* The precondition of C9: a table with data, all of whose labels are
\* synthetic ("Unnamed...") and whose first row holds only non-empty,
\* non-numeric strings.
C9_Pre ==
    /\ ~empty(table)
    /\ \A j \in 1..Len(table.columns) :
           StartsWithUnnamed(FlattenColumns(table).columns[j][1])
    /\ \A j \in 1..Len(table.columns) :
           LET v == table.rows[1][j]
           IN  ~isna(v) /\ v # EmptyStr /\ ~isdigit(v) /\ ~LowerIsNone(v)

NumEmptyRows(rows) == Cardinality({i \in 1..Len(rows) : IsEmptyRow(rows[i])})

\* C9 as stated: such a table is normalized to a table with the first row
\* as labels and exactly one row fewer than the input.
C9_ExactlyOneRowFewer ==
    (Finished /\ C9_Pre) =>
        /\ npc = "kept"
        /\ Len(ndf.rows) = Len(table.rows) - 1

\* C9 amended: the first row becomes the labels and is dropped, so the table
\* has one row fewer before pruning; after pruning it has one row fewer
\* than the input minus the entirely empty rows among the others, and it is
\* kept exactly when a row is left.
C9_PromotionDropsFirstRow ==
    /\ (npc = "relabelled" /\ C9_Pre) =>
           /\ nfirst
           /\ ndf.columns = [j \in 1..Len(table.columns) |-> <<table.rows[1][j]>>]
           /\ ndf.rows = Tail(table.rows)
    /\ (Finished /\ C9_Pre) =>
           /\ Len(ndf.rows) = Len(table.rows) - 1 - NumEmptyRows(Tail(table.rows))
           /\ (npc = "kept") <=> (Len(ndf.rows) > 0)

\* C9 witness: a promoted table that also lost an entirely empty row
C9_Witness ==
    /\ npc = "kept"
    /\ C9_Pre
    /\ nfirst
    /\ Len(ndf.rows) = Len(table.rows) - 2

\* C10: in every normalized table the column labels are non-empty and
\* pairwise distinct.
C10_LabelsNonEmptyDistinct ==
    npc = "kept" =>
        /\ \A j \in 1..Len(ndf.columns) : ndf.columns[j][1] # EmptyStr
        /\ Injective(ndf.columns)

\* C11: normalization is idempotent: running the steps of the loop body on a
\* table the loop kept returns the same table, with no label changed, no
\* first row promoted and no row or column removed.
C11_Idempotent ==
    npc = "kept" =>
        /\ ~FirstRowUsedAsHeader(FlattenColumns(ndf))
        /\ NormalizeTable(ndf) = ndf

\* ===================================================================
\* Claims on convert_pdf_to_docx and download_file (Spec)
\* ===================================================================
\* C12: convert_pdf_to_docx returns Success only if the destination file
\* exists, is not empty and is a container holding every required entry:
\* whenever a word-processing request gets its Success response, the file
\* at its output path is such a container.
C12_SuccessHasRequiredEntries ==
    [][\A r \in Requests :
          (/\ rpc[r] = "validated"
           /\ rkind[r] = "docx"
           /\ rpc'[r] = "responded"
           /\ resp'[r].success) =>
              /\ exists(converted'[r])
              /\ getsize(converted'[r]) > 0
              /\ IsZip(converted'[r])
              /\ RequiredFiles \subseteq converted'[r].entries]_vars

\* The Open XML spreadsheet MIME kind
XlsxMime == "application/vnd.openxmlformats-officedocument.spreadsheetml.sheet"

MimeOfKind(kind) == IF kind = "docx" THEN DocxMime ELSE XlsxMime

\* C13: the MIME kind of a served artifact follows its output kind: the
\* word-processing kind for a document, the spreadsheet kind (and never the
\* word-processing one) for a workbook.
C13_MimeFollowsKind ==
    \A f \in Fetches :
        fresp[f].outcome = "served" => fresp[f].mime = MimeOfKind(rkind[ftarget[f]])

\* C14: a download_file call that finds no file at the path of the artifact
\* it names returns the not-found redirect and not a fault, starts no
\* cleanup thread, and leaves both folders as they are.
C14_MissingIsNotFound ==
    [][\A f \in Fetches :
          (/\ fpc[f] = "idle"
           /\ fpc'[f] # "idle"
           /\ ~exists(converted[ftarget'[f]])) =>
              /\ fpc'[f] = "done"
              /\ fresp'[f].outcome = "redirect"
              /\ cpc'[f] = "none"
              /\ converted' = converted
              /\ uploads' = uploads]_vars

\* ===================================================================
\* Claims on the extraction ladder (SpecExcel)
\* ===================================================================
\* Some strategy call made by the ladder raised
SomeCallRaised == \E i \in 1..Len(invoked) : tabula[invoked[i]].raises

====
